---- MODULE Spec2Model ----
(***************************************************************************)
(* Comment intake and sequential processing pipeline of PumpFunChatApp.   *)
(*                                                                         *)
(* Two versions of the controller live in the repository:                 *)
(*   src/unnamed/part_001  the current controller (content-hash ids,      *)
(*                         stderr parsing, degrading text-to-speech);     *)
(*   src/app.js            the earlier controller (timestamp ids, no      *)
(*                         speech timeout).                               *)
(* Spec models part_001, SpecApp models app.js.  Both run on one Node.js  *)
(* event loop: an action is one macrotask (a timer, a stream 'data'       *)
(* event, an HTTP request, an engine callback) together with the promise  *)
(* continuations (microtasks) it makes runnable.                          *)
(*                                                                         *)
(* JavaScript strings are sequences of one-character strings.             *)
(***************************************************************************)
EXTENDS Naturals, Sequences, FiniteSets, TLC

(***************************************************************************)
(* Bounds of the model                                                     *)
(***************************************************************************)
\* lines per chunk delivered by one 'data' event
MaxLines == 1
\* entries the queue may hold before the model stops accepting chunks
MaxQueue == 2
\* largest value of Date.now() the model lets the clock reach
MaxClock == 1
\* processNextComment invocations per run
MaxCalls == 2
\* subprocesses spawned per run
MaxSpawn == 2
\* largest index Math.floor(Math.random() * length) takes in the model
MaxPick == 1
\* size of the digest space standing for the 8 hex digits of the md5 prefix
HashSpace == 7
\* lines per chunk in SpecParse
MaxParseLines == 2

(***************************************************************************)
(* Characters and strings                                                  *)
(***************************************************************************)
Letters ==
    {"a", "b", "c", "d", "e", "f", "g", "h", "i", "l", "m", "n", "o", "p",
     "r", "s", "t", "u", "w", "x", "y", "N"}

Digits == {"0", "1", "2", "3", "4", "5", "6", "7", "8", "9"}

\* \w of the regular expressions
WordChars == Letters \cup Digits \cup {"_"}

\* \s of the regular expressions and of String.prototype.trim
SpaceChars == {" ", "\t"}

NL == "\n"

\* a total order on the characters, used by the digest
CharCode(c) ==
    CASE c = " " -> 1 [] c = ":" -> 2 [] c = "_" -> 3 [] c = "\t" -> 4
      [] c = "a" -> 5 [] c = "b" -> 6 [] c = "g" -> 7 [] c = "h" -> 8
      [] c = "i" -> 9 [] c = "l" -> 10 [] c = "m" -> 11 [] c = "o" -> 12
      [] c = "c" -> 13 [] c = "t" -> 14 [] c = "5" -> 15 [] c = "x" -> 16
      [] c = "1" -> 17 [] OTHER -> 18

\* s.substring(i - 1), 1-based: the suffix of s that starts at position i
From(s, i) == IF i > Len(s) THEN <<>> ELSE SubSeq(s, i, Len(s))

\* whether needle occurs in s at position i
OccursAt(s, needle, i) ==
    /\ i >= 1
    /\ i + Len(needle) - 1 <= Len(s)
    /\ SubSeq(s, i, i + Len(needle) - 1) = needle

\* String.prototype.includes
Includes(s, needle) == \E i \in 1..(Len(s) + 1) : OccursAt(s, needle, i)

\* String.prototype.trim
Trim(s) ==
    LET keep == {i \in 1..Len(s) : s[i] \notin SpaceChars}
    IN  IF keep = {} THEN <<>>
        ELSE LET lo == CHOOSE i \in keep : \A j \in keep : i <= j
                 hi == CHOOSE i \in keep : \A j \in keep : j <= i
             IN  SubSeq(s, lo, hi)

\* String.prototype.split('\n')
RECURSIVE Split(_)
Split(s) ==
    LET nl == {i \in 1..Len(s) : s[i] = NL}
    IN  IF nl = {} THEN <<s>>
        ELSE LET k == CHOOSE i \in nl : \A j \in nl : i <= j
             IN  <<SubSeq(s, 1, k - 1)>> \o Split(From(s, k + 1))

\* lines.join('\n'): the text a subprocess writes for a sequence of lines
RECURSIVE Join(_)
Join(ls) ==
    IF Len(ls) = 0 THEN <<>>
    ELSE IF Len(ls) = 1 THEN ls[1]
    ELSE ls[1] \o <<NL>> \o Join(Tail(ls))

(***************************************************************************)
(* JavaScript values: strings, numbers, null, undefined, plain objects     *)
(***************************************************************************)
Str(s) == [t |-> "string", v |-> s]
Num(s) == [t |-> "number", v |-> s]
Null == [t |-> "null", v |-> <<>>]
Undefined == [t |-> "undefined", v |-> <<>>]

\* ToBoolean: what `a && b` and `a || b` test
Truthy(x) ==
    CASE x.t = "string" -> x.v # <<>>
      [] x.t = "number" -> x.v # <<"0">>
      [] x.t = "object" -> TRUE
      [] OTHER -> FALSE

\* a || b
OrElse(a, b) == IF Truthy(a) THEN a ELSE b

\* `${x}` for a string or a number
ToText(x) == x.v

\* data.key: a property read; undefined when the object has no such key
Get(obj, key) ==
    IF obj.t = "object" /\ key \in DOMAIN obj.v THEN obj.v[key] ELSE Undefined

(***************************************************************************)
(* JSON.parse, for the JSON texts a line can hold: null, unsigned          *)
(* integers, strings without escapes, and objects whose members are such   *)
(* scalars.  A result is [ok, val, next]; next is the position after the  *)
(* value.  JSON.parse throws SyntaxError for a text that is no value or    *)
(* has characters after it.                                                *)
(***************************************************************************)
Fail == [ok |-> FALSE, val |-> Null, next |-> 0]

ParseString(s, i) ==
    IF i > Len(s) \/ s[i] # "\"" THEN Fail
    ELSE LET close == {j \in (i + 1)..Len(s) : s[j] = "\""}
         IN  IF close = {} THEN Fail
             ELSE LET j == CHOOSE k \in close : \A m \in close : k <= m
                  IN  [ok |-> TRUE, val |-> Str(SubSeq(s, i + 1, j - 1)),
                       next |-> j + 1]

ParseNumber(s, i) ==
    LET stop == {j \in i..(Len(s) + 1) : j = Len(s) + 1 \/ s[j] \notin Digits}
        j == CHOOSE k \in stop : \A m \in stop : k <= m
    IN  IF j = i THEN Fail
        ELSE [ok |-> TRUE, val |-> Num(SubSeq(s, i, j - 1)), next |-> j]

ParseScalar(s, i) ==
    IF i > Len(s) THEN Fail
    ELSE IF s[i] = "\"" THEN ParseString(s, i)
    ELSE IF s[i] \in Digits THEN ParseNumber(s, i)
    ELSE IF OccursAt(s, <<"n", "u", "l", "l">>, i)
         THEN [ok |-> TRUE, val |-> Null, next |-> i + 4]
    ELSE Fail

\* the members of an object from position i on, added to the object acc;
\* a repeated key keeps its last value
RECURSIVE ParseMembers(_, _, _)
ParseMembers(s, i, acc) ==
    LET key == ParseString(s, i)
    IN  IF ~key.ok \/ key.next > Len(s) \/ s[key.next] # ":" THEN Fail
        ELSE LET val == ParseScalar(s, key.next + 1)
                 obj == [k \in DOMAIN acc \cup {key.val.v} |->
                            IF k = key.val.v THEN val.val ELSE acc[k]]
             IN  IF ~val.ok \/ val.next > Len(s) THEN Fail
                 ELSE IF s[val.next] = "}"
                      THEN [ok |-> TRUE, val |-> [t |-> "object", v |-> obj],
                            next |-> val.next + 1]
                 ELSE IF s[val.next] = ","
                      THEN ParseMembers(s, val.next + 1, obj)
                 ELSE Fail

ParseValue(s, i) ==
    IF i <= Len(s) /\ s[i] = "{"
    THEN IF i + 1 <= Len(s) /\ s[i + 1] = "}"
         THEN [ok |-> TRUE, val |-> [t |-> "object", v |-> <<>>], next |-> i + 2]
         ELSE ParseMembers(s, i + 1, <<>>)
    ELSE ParseScalar(s, i)

\* JSON.parse(line): [ok |-> FALSE] stands for the SyntaxError it throws
JSONParse(line) ==
    LET r == ParseValue(line, 1)
    IN  IF r.ok /\ r.next = Len(line) + 1 THEN r ELSE Fail

(***************************************************************************)
(* The regular expressions of the parser.  A match is <<user, message>>,  *)
(* the two capture groups; NoMatch is the null String.prototype.match      *)
(* returns.  Neither expression is anchored: the match is the one at the   *)
(* leftmost position where the whole expression matches.                   *)
(***************************************************************************)
NoMatch == <<>>

Least(S) == CHOOSE i \in S : \A j \in S : i <= j

\* :\s*(.+) with the colon at position k: \s* is greedy and gives back one
\* character when nothing else is left for (.+); the result is the start
\* of the group (.+), 0 when no character follows the colon
RestStart(line, k) ==
    LET stop == {j \in (k + 1)..(Len(line) + 1) :
                    j = Len(line) + 1 \/ line[j] \notin SpaceChars}
        j == Least(stop)
    IN  IF k >= Len(line) THEN 0
        ELSE IF j = Len(line) + 1 THEN Len(line)
        ELSE j

NewMessageFrom ==
    <<"N", "e", "w", " ", "m", "e", "s", "s", "a", "g", "e", " ", "f", "r",
      "o", "m", " ">>

\* where "New message from ([^:]+):\s*(.+)" matches when tried at position i:
\* the position of the colon, 0 when it does not match there
NewMessageColon(line, i) ==
    LET j == i + Len(NewMessageFrom)
        colons == {k \in j..Len(line) : line[k] = ":"}
    IN  IF ~OccursAt(line, NewMessageFrom, i) \/ colons = {} THEN 0
        ELSE LET k == Least(colons)
             IN  IF k > j /\ RestStart(line, k) # 0 THEN k ELSE 0

\* line.match(/New message from ([^:]+):\s*(.+)/)
MatchNewMessage(line) ==
    LET starts == {i \in 1..Len(line) : NewMessageColon(line, i) # 0}
    IN  IF starts = {} THEN NoMatch
        ELSE LET i == Least(starts)
                 k == NewMessageColon(line, i)
             IN  <<SubSeq(line, i + Len(NewMessageFrom), k - 1),
                   From(line, RestStart(line, k))>>

\* where "(\w+):\s*(.+)" matches when tried at position i: the position of
\* the colon that ends the greedy run of word characters, 0 when no match
WordColon(line, i) ==
    LET stop == {j \in i..(Len(line) + 1) :
                    j = Len(line) + 1 \/ line[j] \notin WordChars}
        k == Least(stop)
    IN  IF k > i /\ k <= Len(line) /\ line[k] = ":" /\ RestStart(line, k) # 0
        THEN k ELSE 0

\* line.match(/(\w+):\s*(.+)/)
MatchWordColon(line) ==
    LET starts == {i \in 1..Len(line) : WordColon(line, i) # 0}
    IN  IF starts = {} THEN NoMatch
        ELSE LET i == Least(starts)
                 k == WordColon(line, i)
             IN  <<SubSeq(line, i, k - 1), From(line, RestStart(line, k))>>

(***************************************************************************)
(* State                                                                   *)
(***************************************************************************)
VARIABLES
    \* fields of PumpFunChatApp
    commentQueue,       \* sequence of [id, user, message, timestamp]
    processedComments,  \* set of comment ids
    isProcessing,
    tokenAddress,       \* NoToken stands for null
    mcpProcess,         \* pid of the subprocess the field refers to, 0 = null
    textGenerator,      \* "null" or "gpt2"
    currentlySpeaking,
    ttsDisabled,
    \* the runtime around the object
    now,                \* Date.now()
    intervals,          \* number of active setInterval timers
    spawned,            \* subprocesses spawned so far; their pids are 1..spawned
    running,            \* pids that have not emitted 'close' yet
    killed,             \* running pids that were sent kill()
    restartTimers,      \* pending setTimeout(restart, 5000) timers
    started,            \* processNextComment invocations that dequeued so far
    invocations,        \* pending processNextComment invocations
    speech,             \* per speakResponse call: promise, timer and callback
    \* observation of the run
    lastSpeak,          \* the speakResponse call of the latest step, if any
    caught,             \* what the catch block of processNextComment caught
    delivered           \* the chunk SpecParse handed to the parser, if any

vars ==
    <<commentQueue, processedComments, isProcessing, tokenAddress, mcpProcess,
      textGenerator, currentlySpeaking, ttsDisabled, now, intervals, spawned,
      running, killed, restartTimers, started, invocations, speech, lastSpeak,
      caught, delivered>>

\* the current state as one record; handlers are operators from a state
\* record to a state record, so that a handler can call another one
Cur ==
    [commentQueue |-> commentQueue, processedComments |-> processedComments,
     isProcessing |-> isProcessing, tokenAddress |-> tokenAddress,
     mcpProcess |-> mcpProcess, textGenerator |-> textGenerator,
     currentlySpeaking |-> currentlySpeaking, ttsDisabled |-> ttsDisabled,
     now |-> now, intervals |-> intervals, spawned |-> spawned,
     running |-> running, killed |-> killed, restartTimers |-> restartTimers,
     started |-> started, invocations |-> invocations, speech |-> speech,
     lastSpeak |-> lastSpeak, caught |-> caught, delivered |-> delivered]

\* the next state is S
Become(S) ==
    /\ commentQueue' = S.commentQueue
    /\ processedComments' = S.processedComments
    /\ isProcessing' = S.isProcessing
    /\ tokenAddress' = S.tokenAddress
    /\ mcpProcess' = S.mcpProcess
    /\ textGenerator' = S.textGenerator
    /\ currentlySpeaking' = S.currentlySpeaking
    /\ ttsDisabled' = S.ttsDisabled
    /\ now' = S.now
    /\ intervals' = S.intervals
    /\ spawned' = S.spawned
    /\ running' = S.running
    /\ killed' = S.killed
    /\ restartTimers' = S.restartTimers
    /\ started' = S.started
    /\ invocations' = S.invocations
    /\ speech' = S.speech
    /\ lastSpeak' = S.lastSpeak
    /\ caught' = S.caught
    /\ delivered' = S.delivered

NoToken == "null"
Tokens == {"tokenA"}

NoText == [pool |-> "none", idx |-> 0, user |-> <<>>, len |-> 0]
NoComment == [id |-> Null, user |-> Null, message |-> Null, timestamp |-> 0]
\* lastSpeak when the latest step called speakResponse: the call, its two
\* arguments, whether the generator call behind the response threw, and
\* the texts triggerAvatarAnimation was given
NoCall ==
    [cid |-> 0, response |-> NoText, originalComment |-> NoComment,
     generatorThrew |-> FALSE, triggered |-> <<>>]

\* a handler starts; lastSpeak describes the latest step only
Enter(S) == [S EXCEPT !.lastSpeak = NoCall]

\* new PumpFunChatApp() followed by initialize(), whose model load succeeds
\* (textGenerator set) or fails (textGenerator null)
Init ==
    /\ commentQueue = <<>>
    /\ processedComments = {}
    /\ isProcessing = FALSE
    /\ tokenAddress = NoToken
    /\ mcpProcess = 0
    /\ textGenerator \in {"null", "gpt2"}
    /\ currentlySpeaking = FALSE
    /\ ttsDisabled = FALSE
    /\ now = 0
    /\ intervals = 0
    /\ spawned = 0
    /\ running = {}
    /\ killed = {}
    /\ restartTimers = 0
    /\ started = 0
    /\ invocations = {}
    /\ speech = <<>>
    /\ lastSpeak = NoCall
    /\ caught = {}
    /\ delivered = <<>>

(***************************************************************************)
(* Deduplicating intake queue (part_001)                                   *)
(***************************************************************************)
DigitChars == <<"0", "1", "2", "3", "4", "5", "6", "7", "8", "9">>

RECURSIVE ToDigits(_)
ToDigits(n) ==
    IF n < 10 THEN <<DigitChars[n + 1]>>
    ELSE ToDigits(n \div 10) \o <<DigitChars[(n % 10) + 1]>>

RECURSIVE WeightedSum(_, _)
WeightedSum(s, i) ==
    IF i > Len(s) THEN 0 ELSE i * CharCode(s[i]) + WeightedSum(s, i + 1)

\* crypto.createHash('md5').update(text).digest('hex').substring(0, 8):
\* a deterministic digest of the text into a space small enough to collide
contentHash(text) == ToDigits(WeightedSum(text, 1) % HashSpace)

\* providedId || `${user}_${contentHash}`
commentId(user, message, providedId) ==
    OrElse(providedId,
           Str(ToText(user) \o <<"_">>
               \o contentHash(ToText(user) \o <<":">> \o ToText(message))))

\* queueComment without the check of processedComments
queueComment_NoProcessedCheck(S, user, message, providedId) ==
    [S EXCEPT !.commentQueue =
        Append(@, [id |-> commentId(user, message, providedId), user |-> user,
                   message |-> message, timestamp |-> S.now])]

\* queueComment deriving the id as src/app.js does, with Date.now() in it
queueComment_TimestampId(S, user, message, providedId) ==
    LET id == OrElse(providedId,
                     Str(ToText(commentId(user, message, Null))
                         \o <<"_">> \o ToDigits(S.now)))
    IN  IF id \in S.processedComments
        THEN S
        ELSE [S EXCEPT
                !.commentQueue =
                    Append(@, [id |-> id, user |-> user, message |-> message,
                               timestamp |-> S.now])]

\* queueComment: skip an id that is in processedComments, else push
queueComment(S, user, message, providedId) ==
    LET id == commentId(user, message, providedId)
    IN  IF id \in S.processedComments
        THEN S
        ELSE [S EXCEPT
                !.commentQueue =
                    Append(@, [id |-> id, user |-> user, message |-> message,
                               timestamp |-> S.now])]

(***************************************************************************)
(* Output line parser (part_001)                                           *)
(***************************************************************************)
Chars(name) ==
    CASE name = "type" -> <<"t", "y", "p", "e">>
      [] name = "user" -> <<"u", "s", "e", "r">>
      [] name = "text" -> <<"t", "e", "x", "t">>
      [] name = "id" -> <<"i", "d">>
      [] name = "message" -> <<"m", "e", "s", "s", "a", "g", "e">>
      [] name = "message:" -> <<"m", "e", "s", "s", "a", "g", "e", ":">>
      [] name = "chat:" -> <<"c", "h", "a", "t", ":">>
      [] name = ":" -> <<":">>

NoEvent == [found |-> FALSE, user |-> Null, message |-> Null, providedId |-> Null]

\* the arguments of a queueComment call
Event(user, message, providedId) ==
    [found |-> TRUE, user |-> user, message |-> message, providedId |-> providedId]

\* the fallback without trim() on the captures
regexFallback_NoTrim(line) ==
    LET newMessageMatch == MatchNewMessage(line)
        messageMatch == MatchWordColon(line)
    IN  IF newMessageMatch # NoMatch
        THEN Event(Str(newMessageMatch[1]), Str(newMessageMatch[2]), Null)
        ELSE IF Includes(line, Chars("message:")) \/ Includes(line, Chars("chat:"))
                \/ Includes(line, Chars(":"))
        THEN IF messageMatch # NoMatch
             THEN Event(Str(messageMatch[1]), Str(messageMatch[2]), Null)
             ELSE NoEvent
        ELSE NoEvent

\* the catch block of the per-line try: the regular-expression fallback
regexFallback(line) ==
    LET newMessageMatch == MatchNewMessage(line)
        messageMatch == MatchWordColon(line)
    IN  IF newMessageMatch # NoMatch
        THEN Event(Str(Trim(newMessageMatch[1])), Str(Trim(newMessageMatch[2])),
                   Null)
        ELSE IF Includes(line, Chars("message:")) \/ Includes(line, Chars("chat:"))
                \/ Includes(line, Chars(":"))
        THEN IF messageMatch # NoMatch
             THEN Event(Str(messageMatch[1]), Str(Trim(messageMatch[2])), Null)
             ELSE NoEvent
        ELSE NoEvent

\* the callback without the catch block: a line that is no JSON is dropped
parseLine_NoFallback(line) ==
    LET parsed == JSONParse(line)
        data == parsed.val
    IN  IF Trim(line) = <<>> THEN NoEvent
        ELSE IF parsed.ok /\ data.t # "null"
        THEN IF /\ Get(data, Chars("type")) = Str(Chars("message"))
                /\ Truthy(Get(data, Chars("user")))
                /\ Truthy(Get(data, Chars("text")))
             THEN Event(Get(data, Chars("user")), Get(data, Chars("text")),
                        OrElse(Get(data, Chars("id")), Null))
             ELSE NoEvent
        ELSE NoEvent

\* the callback of lines.forEach: the queueComment call the line leads to,
\* if any.  JSON.parse throwing, and the TypeError of reading data.type
\* when data is null, both enter the catch block
parseLine(line) ==
    LET parsed == JSONParse(line)
        data == parsed.val
    IN  IF Trim(line) = <<>> THEN NoEvent
        ELSE IF parsed.ok /\ data.t # "null"
        THEN IF /\ Get(data, Chars("type")) = Str(Chars("message"))
                /\ Truthy(Get(data, Chars("user")))
                /\ Truthy(Get(data, Chars("text")))
             THEN Event(Get(data, Chars("user")), Get(data, Chars("text")),
                        OrElse(Get(data, Chars("id")), Null))
             ELSE NoEvent
        ELSE regexFallback(line)

\* one try/catch around the whole loop: the first line no decoder accepts
\* ends the parsing of the chunk
RECURSIVE forEachLine_AbortsAtFailure(_)
forEachLine_AbortsAtFailure(lines) ==
    IF lines = <<>> THEN <<>>
    ELSE IF /\ Trim(Head(lines)) # <<>>
            /\ ~JSONParse(Head(lines)).ok
            /\ ~parseLine(Head(lines)).found
    THEN <<>>
    ELSE (IF parseLine(Head(lines)).found THEN <<parseLine(Head(lines))>> ELSE <<>>)
         \o forEachLine_AbortsAtFailure(Tail(lines))

\* mcpOutput.split('\n').forEach(...): the queueComment calls, in order
RECURSIVE forEachLine(_)
forEachLine(lines) ==
    IF lines = <<>> THEN <<>>
    ELSE (IF parseLine(Head(lines)).found THEN <<parseLine(Head(lines))>> ELSE <<>>)
         \o forEachLine(Tail(lines))

RECURSIVE queueAll(_, _)
queueAll(S, events) ==
    IF events = <<>> THEN S
    ELSE queueAll(queueComment(S, Head(events).user, Head(events).message,
                               Head(events).providedId),
                  Tail(events))

(***************************************************************************)
(* What the subprocess writes                                              *)
(***************************************************************************)
Line_NewMessage_al_gm == NewMessageFrom \o <<"a", "l", ":", " ", "g", "m">>
Line_al_gm == <<"a", "l", ":", " ", "g", "m">>
Line_oops == <<"o", "o", "p", "s">>
\* {"type":"message","user":"bo","text":"hi","id":"x1"}
Line_json_bo_hi_x1 ==
    <<"{", "\"", "t", "y", "p", "e", "\"", ":", "\"", "m", "e", "s", "s", "a",
      "g", "e", "\"", ",", "\"", "u", "s", "e", "r", "\"", ":", "\"", "b", "o",
      "\"", ",", "\"", "t", "e", "x", "t", "\"", ":", "\"", "h", "i", "\"", ",",
      "\"", "i", "d", "\"", ":", "\"", "x", "1", "\"", "}">>
\* {"type":"message","user":"al","text":5}
Line_json_al_5 ==
    <<"{", "\"", "t", "y", "p", "e", "\"", ":", "\"", "m", "e", "s", "s", "a",
      "g", "e", "\"", ",", "\"", "u", "s", "e", "r", "\"", ":", "\"", "a", "l",
      "\"", ",", "\"", "t", "e", "x", "t", "\"", ":", "5", "}">>

Lines ==
    {Line_NewMessage_al_gm, Line_al_gm, Line_oops, Line_json_bo_hi_x1,
     Line_json_al_5}

\* the texts one 'data' event can deliver: up to MaxLines lines
Chunks == {Join(ls) : ls \in UNION {[1..n -> Lines] : n \in 1..MaxLines}}


\* "New message from al : gm wagmi ", with blanks around both captures
Line_NewMessage_al_wagmi ==
    NewMessageFrom
    \o <<"a", "l", " ", ":", " ", "g", "m", " ", "w", "a", "g", "m", "i", " ">>
\* "al: gm" as a JSON string: it decodes, and is no message record
Line_jsonString_al_gm == <<"\"", "a", "l", ":", " ", "g", "m", "\"">>
\* a colon followed by blanks only
Line_bo_blank == <<"b", "o", ":", " ", " ">>
Line_blank == <<" ">>

\* the lines SpecParse feeds the parser
ParseLines ==
    {Line_NewMessage_al_wagmi, Line_al_gm, Line_oops, Line_json_bo_hi_x1,
     Line_jsonString_al_gm, Line_bo_blank, Line_blank}

ParseChunks ==
    {Join(ls) : ls \in UNION {[1..n -> ParseLines] : n \in 1..MaxParseLines}}

\* the queueComment calls each chunk leads to, computed once
ChunkEvents == [chunk \in Chunks \cup ParseChunks |-> forEachLine(Split(chunk))]

EventsOf(mcpOutput) == ChunkEvents[mcpOutput]

parseAndQueueComments(S, mcpOutput) == queueAll(S, EventsOf(mcpOutput))

(***************************************************************************)
(* Response generator (part_001).  A response text is kept as the pool it  *)
(* comes from, its index in the pool, the interpolated sender and its      *)
(* length in UTF-16 code units.                                            *)
(***************************************************************************)
\* lengths of the templates of funnyResponses and cryptoResponses without
\* the interpolated ${comment.user}
funnyResponses == <<71, 78, 75, 80, 74, 70, 86, 76, 71, 80>>
cryptoResponses == <<47, 61, 66, 49, 73>>
\* `${comment.user}, something went wrong but I'm still vibing! ...`
wentWrongLen == 48

Canned(pool, idx, user) ==
    [pool |-> pool, idx |-> idx, user |-> ToText(user),
     len |-> Len(ToText(user))
             + (IF pool = "crypto" THEN cryptoResponses[idx + 1]
                ELSE funnyResponses[idx + 1])]

WentWrong(user) ==
    [pool |-> "wentWrong", idx |-> 0, user |-> ToText(user),
     len |-> Len(ToText(user)) + wentWrongLen]

\* the text the generator produced, after replace(prompt, '').trim()
Enhanced(n) == [pool |-> "enhanced", idx |-> 0, user |-> <<>>, len |-> n]

cryptoTerms ==
    {<<"m", "o", "o", "n">>, <<"d", "i", "a", "m", "o", "n", "d">>,
     <<"h", "o", "d", "l">>, <<"p", "u", "m", "p">>, <<"g", "e", "m">>,
     <<"a", "p", "e">>, <<"w", "a", "g", "m", "i">>, <<"g", "m">>,
     <<"p", "r", "o", "b", "a", "b", "l", "y", " ", "n", "o", "t", "h", "i",
       "n", "g">>}

\* String.prototype.toLowerCase on the model's alphabet
toLowerCase(s) == [i \in 1..Len(s) |-> IF s[i] = "N" THEN "n" ELSE s[i]]

containsCrypto(message) ==
    \E term \in cryptoTerms : Includes(toLowerCase(message), toLowerCase(term))

\* comment.message.toLowerCase() is a TypeError unless message is a string
classifyThrows(comment) == comment.message.t # "string"

responsePool(comment) ==
    IF containsCrypto(ToText(comment.message)) THEN "crypto" ELSE "funny"

poolLength(pool) ==
    IF pool = "crypto" THEN Len(cryptoResponses) ELSE Len(funnyResponses)

\* responsePool[Math.floor(Math.random() * responsePool.length)], pick being
\* the index drawn
selectedResponse(comment, pick) == Canned(responsePool(comment), pick, comment.user)

MinEnhanced == 10
MaxEnhanced == 150

\* the length test with inclusive limits
acceptEnhanced_Inclusive(n) == n # 0 /\ n >= MinEnhanced /\ n <= MaxEnhanced

\* enhanced && enhanced.length > 10 && enhanced.length < 150
acceptEnhanced(n) == n # 0 /\ n > MinEnhanced /\ n < MaxEnhanced

\* what the text generator does with a prompt: it throws (or returns a
\* result without result[0].generated_text), or it returns a text whose
\* enhanced part has one of these lengths
GeneratorOutcomes ==
    {[throws |-> TRUE, len |-> 0]}
    \cup {[throws |-> FALSE, len |-> n] : n \in {0, 10, 11, 149, 150}}

\* How a call of generateResponse stands: it returned text, it awaits the
\* generator with `selected` chosen, or it threw.
Returned(text) == [status |-> "returned", text |-> text]
Awaiting(selected) == [status |-> "awaiting", text |-> selected]
Threw == [status |-> "threw", text |-> NoText]

\* generateResponse up to the await on the generator.  The TypeError of
\* toLowerCase is caught by the outer catch, which returns the apology
generateResponse(comment, pick, generator) ==
    IF classifyThrows(comment) THEN Returned(WentWrong(comment.user))
    ELSE IF generator # "null" THEN Awaiting(selectedResponse(comment, pick))
    ELSE Returned(selectedResponse(comment, pick))

\* generateResponse without the inner try/catch: the generator's error
\* reaches the outer catch, which returns the apology
generateResponseResumed_OuterCatch(comment, selected, outcome) ==
    IF outcome.throws THEN Returned(WentWrong(comment.user))
    ELSE IF acceptEnhanced(outcome.len) THEN Returned(Enhanced(outcome.len))
    ELSE Returned(selected)

\* generateResponse from the point where the awaited generator call
\* settles: the inner catch swallows its error, and a text that is not
\* accepted falls through to `return selectedResponse`
generateResponseResumed(comment, selected, outcome) ==
    IF outcome.throws THEN Returned(selected)
    ELSE IF acceptEnhanced(outcome.len) THEN Returned(Enhanced(outcome.len))
    ELSE Returned(selected)

(***************************************************************************)
(* Speech announcer (part_001).  speech[cid] describes the speakResponse   *)
(* call of invocation cid: whether its promise is resolved, whether its    *)
(* 5 second timer is pending and whether the engine still owes a callback. *)
(***************************************************************************)
\* say.speak: it throws synchronously, or it will call back, or it never does
EngineOutcomes == {"throws", "callsBack", "silent"}

SetSpeech(S, cid, resolved, timer, cb) ==
    [S EXCEPT !.speech =
        [c \in DOMAIN S.speech \cup {cid} |->
            IF c = cid THEN [resolved |-> resolved, timer |-> timer, cb |-> cb]
            ELSE S.speech[c]]]

triggerAvatarAnimation(S, text) ==
    [S EXCEPT !.lastSpeak.triggered = Append(@, text)]

\* the disabled path returning right after resolve()
speakDisabled_NoTrigger(S, cid, response) ==
    SetSpeech([S EXCEPT !.currentlySpeaking = FALSE], cid, TRUE, FALSE, FALSE)

\* speakResponse with TTS disabled: resolve, announce, return
speakDisabled(S, cid, response) ==
    triggerAvatarAnimation(
        SetSpeech([S EXCEPT !.currentlySpeaking = FALSE], cid, TRUE, FALSE, FALSE),
        response)

\* a catch block that leaves currentlySpeaking set
speakThrows_KeepsSpeaking(S, cid, response) ==
    triggerAvatarAnimation(
        SetSpeech([S EXCEPT !.ttsDisabled = TRUE], cid, TRUE, TRUE, FALSE),
        response)

\* speakResponse when say.speak throws: the catch block disables TTS and
\* resolves; the timer set before say.speak stays pending
speakThrows(S, cid, response) ==
    triggerAvatarAnimation(
        SetSpeech([S EXCEPT !.ttsDisabled = TRUE, !.currentlySpeaking = FALSE],
                  cid, TRUE, TRUE, FALSE),
        response)

\* speakResponse without the 5 second timer
speakPending_NoTimer(S, cid, response, engine) ==
    triggerAvatarAnimation(
        SetSpeech(S, cid, FALSE, FALSE, engine = "callsBack"),
        response)

\* speakResponse when say.speak returns: timer and, maybe, callback pending
speakPending(S, cid, response, engine) ==
    triggerAvatarAnimation(
        SetSpeech(S, cid, FALSE, TRUE, engine = "callsBack"),
        response)

\* the executor of the promise speakResponse returns, run synchronously
speakResponse(S, cid, response, originalComment, engine) ==
    LET S0 == [S EXCEPT !.currentlySpeaking = TRUE,
                        !.lastSpeak = [cid |-> cid, response |-> response,
                                       originalComment |-> originalComment,
                                       generatorThrew |-> FALSE,
                                       triggered |-> <<>>]]
    IN  IF S0.ttsDisabled THEN speakDisabled(S0, cid, response)
        ELSE IF engine = "throws" THEN speakThrows(S0, cid, response)
        ELSE speakPending(S0, cid, response, engine)

(***************************************************************************)
(* Sequential processor (part_001)                                         *)
(***************************************************************************)
\* the finally block of processNextComment, which ends invocation cid
finally(S, cid) ==
    [S EXCEPT !.isProcessing = FALSE,
              !.invocations = {v \in @ : v.cid # cid}]

\* the catch block of processNextComment
catch(S, what) == [S EXCEPT !.caught = @ \cup {what}]

\* a promise whose second resolve() resumes the awaiting code again
resolve_Twice(S, cid) ==
    finally([S EXCEPT !.speech[cid].resolved = TRUE], cid)

\* resolve() of the promise of call cid: the first one resumes the
\* invocation awaiting it, which runs to its finally block; later ones do
\* nothing
resolve(S, cid) ==
    IF S.speech[cid].resolved THEN S
    ELSE finally([S EXCEPT !.speech[cid].resolved = TRUE], cid)

Invocation(cid, comment, phase, selected) ==
    [cid |-> cid, comment |-> comment, phase |-> phase, selected |-> selected]

\* processNextComment whose flag reset sits at the end of the try block:
\* when say.speak throws, the invocation ends with the flag still set
awaitSpeak_ErrorEscapes(S, cid, comment, response, engine) ==
    LET S1 == speakResponse(S, cid, response, comment, engine)
    IN  IF engine = "throws" /\ ~S.ttsDisabled
        THEN [S1 EXCEPT !.invocations = {v \in @ : v.cid # cid}]
        ELSE IF S1.speech[cid].resolved
        THEN finally(S1, cid)
        ELSE [S1 EXCEPT !.invocations =
                {v \in @ : v.cid # cid}
                \cup {Invocation(cid, comment, "speak", NoText)}]

\* await this.speakResponse(response, comment) and what follows it
awaitSpeak(S, cid, comment, response, engine) ==
    LET S1 == speakResponse(S, cid, response, comment, engine)
    IN  IF S1.speech[cid].resolved
        THEN finally(S1, cid)
        ELSE [S1 EXCEPT !.invocations =
                {v \in @ : v.cid # cid}
                \cup {Invocation(cid, comment, "speak", NoText)}]

\* processNextComment from `const response = await ...` on, given how the
\* generateResponse call stands
continue(S, cid, comment, generated, engine) ==
    IF generated.status = "awaiting"
    THEN [S EXCEPT !.invocations =
            {v \in @ : v.cid # cid}
            \cup {Invocation(cid, comment, "generate", generated.text)}]
    ELSE IF generated.status = "threw"
    THEN finally(catch(S, "generateResponse"), cid)
    ELSE awaitSpeak(S, cid, comment, generated.text, engine)

\* processNextComment using pop() instead of shift()
processNextComment_TakesLast(S, pick, engine) ==
    IF S.isProcessing \/ Len(S.commentQueue) = 0 THEN S
    ELSE LET comment == S.commentQueue[Len(S.commentQueue)]
             cid == S.started + 1
             S1 == [S EXCEPT !.isProcessing = TRUE,
                             !.commentQueue = SubSeq(@, 1, Len(@) - 1),
                             !.started = cid,
                             !.processedComments = @ \cup {comment.id}]
         IN  continue(S1, cid, comment,
                      generateResponse(comment, pick, S1.textGenerator), engine)

\* processNextComment that does not mark the comment before generating
processNextComment_NoEarlyMark(S, pick, engine) ==
    IF S.isProcessing \/ Len(S.commentQueue) = 0 THEN S
    ELSE LET comment == Head(S.commentQueue)
             cid == S.started + 1
             S1 == [S EXCEPT !.isProcessing = TRUE,
                             !.commentQueue = Tail(@),
                             !.started = cid]
         IN  continue(S1, cid, comment,
                      generateResponse(comment, pick, S1.textGenerator), engine)

processNextComment(S, pick, engine) ==
    IF S.isProcessing \/ Len(S.commentQueue) = 0 THEN S
    ELSE LET comment == Head(S.commentQueue)
             cid == S.started + 1
             S1 == [S EXCEPT !.isProcessing = TRUE,
                             !.commentQueue = Tail(@),
                             !.started = cid,
                             !.processedComments = @ \cup {comment.id}]
         IN  continue(S1, cid, comment,
                      generateResponse(comment, pick, S1.textGenerator), engine)

\* the callback startQueueProcessor gives to setInterval
intervalCallback(S, pick, engine) ==
    IF ~S.isProcessing /\ Len(S.commentQueue) > 0
    THEN processNextComment(S, pick, engine)
    ELSE S

\* the awaited generator call of invocation inv settles
generatorSettles(S, inv, outcome, engine) ==
    LET S1 == continue(S, inv.cid, inv.comment,
                       generateResponseResumed(inv.comment, inv.selected, outcome),
                       engine)
    IN  IF S1.lastSpeak.cid = inv.cid
        THEN [S1 EXCEPT !.lastSpeak.generatorThrew = outcome.throws]
        ELSE S1

\* a callback that re-enables TTS when the engine reports success
sayCallback_ReEnables(S, cid, err) ==
    LET S1 == [S EXCEPT !.speech[cid].timer = FALSE,
                        !.speech[cid].cb = FALSE,
                        !.ttsDisabled = err,
                        !.currentlySpeaking = FALSE]
    IN  resolve(S1, cid)

\* a callback that ends the processing cycle itself
sayCallback_EndsCycle(S, cid, err) ==
    LET S1 == [S EXCEPT !.speech[cid].timer = FALSE,
                        !.speech[cid].cb = FALSE,
                        !.ttsDisabled = IF err THEN TRUE ELSE @,
                        !.currentlySpeaking = FALSE,
                        !.isProcessing = FALSE]
    IN  resolve(S1, cid)

\* the callback given to say.speak
sayCallback(S, cid, err) ==
    LET S1 == [S EXCEPT !.speech[cid].timer = FALSE,
                        !.speech[cid].cb = FALSE,
                        !.ttsDisabled = IF err THEN TRUE ELSE @,
                        !.currentlySpeaking = FALSE]
    IN  resolve(S1, cid)

\* a timeout callback that forgets resolve()
ttsTimeout_NoResolve(S, cid) ==
    [S EXCEPT !.speech[cid].timer = FALSE,
              !.ttsDisabled = TRUE,
              !.currentlySpeaking = FALSE]

\* the callback given to setTimeout in speakResponse
ttsTimeout(S, cid) ==
    LET S1 == [S EXCEPT !.speech[cid].timer = FALSE,
                        !.ttsDisabled = TRUE,
                        !.currentlySpeaking = FALSE]
    IN  resolve(S1, cid)

(***************************************************************************)
(* Subprocess lifecycle (part_001)                                         *)
(***************************************************************************)
startQueueProcessor(S) == [S EXCEPT !.intervals = @ + 1]

startPumpFunChat(S) ==
    LET pid == S.spawned + 1
        S1 == IF S.mcpProcess # 0
              THEN [S EXCEPT !.killed = @ \cup ({S.mcpProcess} \cap S.running)]
              ELSE S
    IN  startQueueProcessor(
            [S1 EXCEPT !.mcpProcess = pid, !.spawned = pid,
                       !.running = @ \cup {pid}])

\* POST /start; tokenAddress is the field of the request body
postStart(S, token) ==
    IF token = NoToken THEN S
    ELSE startPumpFunChat([S EXCEPT !.tokenAddress = token])

\* the 'close' event of subprocess pid
onClose(S, pid) ==
    [S EXCEPT !.running = @ \ {pid}, !.killed = @ \ {pid},
              !.restartTimers = @ + 1]

\* a restart callback that only logs
restartCallback_NoSpawn(S) == [S EXCEPT !.restartTimers = @ - 1]

\* the callback given to setTimeout in the 'close' handler
restartCallback(S) ==
    LET S1 == [S EXCEPT !.restartTimers = @ - 1]
    IN  IF S1.tokenAddress # NoToken THEN startPumpFunChat(S1) ELSE S1

\* a status reply that counts dequeues instead of distinct ids
status_CountsDequeues(S) ==
    [queueLength |-> Len(S.commentQueue),
     isProcessing |-> S.isProcessing,
     currentlySpeaking |-> S.currentlySpeaking,
     processedCount |-> S.started]

\* the reply of GET /status
status(S) ==
    [queueLength |-> Len(S.commentQueue),
     isProcessing |-> S.isProcessing,
     currentlySpeaking |-> S.currentlySpeaking,
     processedCount |-> Cardinality(S.processedComments)]

\* the indices Math.random may draw in the model
Picks == 0..MaxPick

(***************************************************************************)
(* Actions of part_001: one per macrotask                                  *)
(***************************************************************************)
\* POST /start, with or without a token address in the body
PostStart ==
    \E token \in Tokens \cup {NoToken} :
        /\ spawned < MaxSpawn
        /\ Become(postStart(Enter(Cur), token))

\* mcpProcess.stdout.on('data') of a subprocess that is still running
StdoutData ==
    /\ running # {}
    /\ \E chunk \in Chunks :
        LET S == parseAndQueueComments(Enter(Cur), chunk)
        IN  Len(S.commentQueue) <= MaxQueue /\ Become(S)

\* mcpProcess.stderr.on('data') of a subprocess that is still running
StderrData ==
    /\ running # {}
    /\ \E chunk \in Chunks :
        LET S == parseAndQueueComments(Enter(Cur), chunk)
        IN  Len(S.commentQueue) <= MaxQueue /\ Become(S)

\* mcpProcess.on('close'): the subprocess exits, killed or on its own
Close ==
    \E pid \in running : Become(onClose(Enter(Cur), pid))

\* the restart timer fires
Restart ==
    /\ restartTimers > 0
    /\ tokenAddress # NoToken => spawned < MaxSpawn
    /\ Become(restartCallback(Enter(Cur)))

\* one of the polling timers fires and finds work
Tick ==
    /\ intervals > 0
    /\ started < MaxCalls
    /\ Len(commentQueue) > 0
    /\ \E pick \in Picks, engine \in EngineOutcomes :
        /\ pick < poolLength(responsePool(Head(commentQueue)))
        /\ LET S == intervalCallback(Enter(Cur), pick, engine)
           IN  S.started # started /\ Become(S)

\* the text generator settles the call an invocation awaits
GeneratorSettles ==
    \E inv \in invocations, outcome \in GeneratorOutcomes,
       engine \in EngineOutcomes :
        /\ inv.phase = "generate"
        /\ Become(generatorSettles(Enter(Cur),
                                   inv, outcome, engine))

\* the speech engine calls back, with or without an error
SayCallback ==
    \E cid \in DOMAIN speech, err \in BOOLEAN :
        /\ speech[cid].cb
        /\ Become(sayCallback(Enter(Cur),
                              cid, err))

\* the 5 second timer of a speakResponse call fires
TtsTimeout ==
    \E cid \in DOMAIN speech :
        /\ speech[cid].timer
        /\ Become(ttsTimeout(Enter(Cur), cid))

\* time passes
ClockAdvance ==
    /\ now < MaxClock
    /\ Become([Enter(Cur) EXCEPT !.now = @ + 1])

Next ==
    \/ PostStart
    \/ StdoutData
    \/ StderrData
    \/ Close
    \/ Restart
    \/ Tick
    \/ GeneratorSettles
    \/ SayCallback
    \/ TtsTimeout
    \/ ClockAdvance

Spec == Init /\ [][Next]_vars

\* Spec with the scheduling the processor relies on: an interval timer that
\* finds work fires (setInterval, 1000 ms), the 5 second timer of a
\* speakResponse call fires (setTimeout), and an awaited text generator
\* call settles.  Nothing is assumed of the speech engine's callback.
NextLive ==
    \/ PostStart
    \/ StdoutData
    \/ Tick
    \/ GeneratorSettles
    \/ SayCallback
    \/ TtsTimeout

FairSpec ==
    /\ Init
    /\ [][NextLive]_vars
    /\ WF_vars(Tick)
    /\ WF_vars(GeneratorSettles)
    /\ WF_vars(TtsTimeout)

(***************************************************************************)
(* The parser on its own: one 'data' event delivers one chunk of up to     *)
(* MaxParseLines lines to a controller that has queued nothing yet, and    *)
(* the processor then works through what was queued.                       *)
(***************************************************************************)
\* mcpProcess.stdout.on('data') with a chunk of ParseChunks
ParseData ==
    /\ running # {}
    /\ delivered = <<>>
    /\ \E chunk \in ParseChunks :
        Become([parseAndQueueComments(Enter(Cur), chunk)
                    EXCEPT !.delivered = chunk])

NextParse ==
    \/ PostStart
    \/ ParseData
    \/ Tick
    \/ GeneratorSettles
    \/ SayCallback
    \/ TtsTimeout

SpecParse == Init /\ [][NextParse]_vars

(***************************************************************************)
(* The earlier controller, src/app.js.  It has the same fields except     *)
(* ttsDisabled (which stays FALSE here), the same processor and the same   *)
(* subprocess lifecycle; its parser, its ids, its generator and its        *)
(* announcer differ.                                                       *)
(***************************************************************************)
\* `${user}_${message}_${Date.now()}`, message being the untrimmed capture
App_commentId(user, message, time) ==
    Str(user \o <<"_">> \o message \o <<"_">> \o ToDigits(time))

\* the callback of lines.forEach in app.js
App_parseLine(S, line) ==
    LET messageMatch == MatchWordColon(line)
    IN  IF (Includes(line, Chars("message:")) \/ Includes(line, Chars("chat:")))
           /\ messageMatch # NoMatch
        THEN LET id == App_commentId(messageMatch[1], messageMatch[2], S.now)
             IN  IF id \notin S.processedComments
                 THEN [S EXCEPT !.commentQueue =
                        Append(@, [id |-> id,
                                   user |-> Str(messageMatch[1]),
                                   message |-> Str(Trim(messageMatch[2])),
                                   timestamp |-> S.now])]
                 ELSE S
        ELSE S

RECURSIVE App_forEachLine(_, _)
App_forEachLine(S, lines) ==
    IF lines = <<>> THEN S
    ELSE App_forEachLine(App_parseLine(S, Head(lines)), Tail(lines))

App_parseAndQueueComments(S, mcpOutput) == App_forEachLine(S, Split(mcpOutput))

Line_chat_hi == <<"c", "h", "a", "t", ":", " ", "h", "i">>
Line_message_gm == <<"m", "e", "s", "s", "a", "g", "e", ":", " ", "g", "m", " ">>

App_Lines == {Line_chat_hi, Line_message_gm, Line_al_gm}

App_Chunks == {Join(ls) : ls \in UNION {[1..n -> App_Lines] : n \in 1..MaxLines}}

\* lengths of the templates of fallbackResponses without ${comment.user}
App_fallbackResponses == <<21, 20, 13, 15, 11>>
\* `Thanks for the comment, ${comment.user}!`
App_thanksLen == 25
\* the response is cut to 97 characters plus '...'
App_maxResponse == 100

App_Fallback(idx, user) ==
    [pool |-> "fallback", idx |-> idx, user |-> ToText(user),
     len |-> Len(ToText(user)) + App_fallbackResponses[idx + 1]]

App_Thanks(user) ==
    [pool |-> "thanks", idx |-> 0, user |-> ToText(user),
     len |-> Len(ToText(user)) + App_thanksLen]

\* generateResponse of app.js up to the await on the generator
App_generateResponse(comment, pick, generator) ==
    IF generator # "null" THEN Awaiting(NoText)
    ELSE Returned(App_Fallback(pick, comment.user))

\* generateResponse of app.js once the generator call settles; outcome.len
\* is the length of the generated text up to its first '.'
App_generateResponseResumed(comment, outcome) ==
    IF outcome.throws THEN Returned(App_Thanks(comment.user))
    ELSE Returned(Enhanced(IF outcome.len + 1 > App_maxResponse
                           THEN App_maxResponse ELSE outcome.len + 1))

\* the executor of the promise speakResponse of app.js returns.  When
\* say.speak throws, the executor throws and the promise is rejected
App_speakResponse(S, cid, response, originalComment, engine) ==
    LET S0 == [S EXCEPT !.currentlySpeaking = TRUE,
                        !.lastSpeak = [cid |-> cid, response |-> response,
                                       originalComment |-> originalComment,
                                       generatorThrew |-> FALSE,
                                       triggered |-> <<>>]]
    IN  IF engine = "throws" THEN SetSpeech(S0, cid, TRUE, FALSE, FALSE)
        ELSE triggerAvatarAnimation(
                 SetSpeech(S0, cid, FALSE, FALSE, engine = "callsBack"),
                 response)

\* await this.speakResponse(response, comment) in app.js
App_awaitSpeak(S, cid, comment, response, engine) ==
    LET S1 == App_speakResponse(S, cid, response, comment, engine)
    IN  IF engine = "throws"
        THEN finally(catch(S1, "speakResponse"), cid)
        ELSE [S1 EXCEPT !.invocations =
                {v \in @ : v.cid # cid}
                \cup {Invocation(cid, comment, "speak", NoText)}]

App_continue(S, cid, comment, generated, engine) ==
    IF generated.status = "awaiting"
    THEN [S EXCEPT !.invocations =
            {v \in @ : v.cid # cid}
            \cup {Invocation(cid, comment, "generate", generated.text)}]
    ELSE IF generated.status = "threw"
    THEN finally(catch(S, "generateResponse"), cid)
    ELSE App_awaitSpeak(S, cid, comment, generated.text, engine)

App_processNextComment(S, pick, engine) ==
    IF S.isProcessing \/ Len(S.commentQueue) = 0 THEN S
    ELSE LET comment == Head(S.commentQueue)
             cid == S.started + 1
             S1 == [S EXCEPT !.isProcessing = TRUE,
                             !.commentQueue = Tail(@),
                             !.started = cid,
                             !.processedComments = @ \cup {comment.id}]
         IN  App_continue(S1, cid, comment,
                          App_generateResponse(comment, pick, S1.textGenerator),
                          engine)

App_intervalCallback(S, pick, engine) ==
    IF ~S.isProcessing /\ Len(S.commentQueue) > 0
    THEN App_processNextComment(S, pick, engine)
    ELSE S

App_generatorSettles(S, inv, outcome, engine) ==
    LET S1 == App_continue(S, inv.cid, inv.comment,
                           App_generateResponseResumed(inv.comment, outcome),
                           engine)
    IN  IF S1.lastSpeak.cid = inv.cid
        THEN [S1 EXCEPT !.lastSpeak.generatorThrew = outcome.throws]
        ELSE S1

\* the callback given to say.speak in app.js
App_sayCallback(S, cid, err) ==
    resolve([S EXCEPT !.speech[cid].cb = FALSE, !.currentlySpeaking = FALSE], cid)

\* POST /start of app.js: both fields of the body are required
App_postStart(S, username, token) ==
    IF ~username \/ token = NoToken THEN S
    ELSE startPumpFunChat([S EXCEPT !.tokenAddress = token])

(***************************************************************************)
(* Actions of app.js                                                       *)
(***************************************************************************)
AppPostStart ==
    \E username \in BOOLEAN, token \in Tokens \cup {NoToken} :
        /\ spawned < MaxSpawn
        /\ Become(App_postStart(Enter(Cur), username, token))

AppStdoutData ==
    /\ running # {}
    /\ \E chunk \in App_Chunks :
        LET S == App_parseAndQueueComments(Enter(Cur), chunk)
        IN  Len(S.commentQueue) <= MaxQueue /\ Become(S)

AppClose ==
    \E pid \in running : Become(onClose(Enter(Cur), pid))

AppRestart ==
    /\ restartTimers > 0
    /\ tokenAddress # NoToken => spawned < MaxSpawn
    /\ Become(restartCallback(Enter(Cur)))

AppTick ==
    /\ intervals > 0
    /\ started < MaxCalls
    /\ Len(commentQueue) > 0
    /\ \E pick \in Picks, engine \in EngineOutcomes :
        /\ pick < Len(App_fallbackResponses)
        /\ LET S == App_intervalCallback(Enter(Cur), pick, engine)
           IN  S.started # started /\ Become(S)

AppGeneratorSettles ==
    \E inv \in invocations, outcome \in GeneratorOutcomes,
       engine \in EngineOutcomes :
        /\ inv.phase = "generate"
        /\ Become(App_generatorSettles(Enter(Cur), inv, outcome, engine))

AppSayCallback ==
    \E cid \in DOMAIN speech, err \in BOOLEAN :
        /\ speech[cid].cb
        /\ Become(App_sayCallback(Enter(Cur), cid, err))

NextApp ==
    \/ AppPostStart
    \/ AppStdoutData
    \/ AppClose
    \/ AppRestart
    \/ AppTick
    \/ AppGeneratorSettles
    \/ AppSayCallback
    \/ ClockAdvance

SpecApp == Init /\ [][NextApp]_vars

(***************************************************************************)
(* Properties                                                              *)
(***************************************************************************)
\* the queueComment calls the subprocess output can lead to
Events == UNION {{ChunkEvents[chunk][i] : i \in DOMAIN ChunkEvents[chunk]} :
                 chunk \in Chunks}

\* the ids that come with a line instead of being derived from its content
ProvidedIds == {e.providedId : e \in Events} \ {Null}

\* C1: at most one comment is in flight.  At most one invocation of
\* processNextComment is between setting isProcessing and its finally block,
\* isProcessing is set exactly while there is one, and the only speakResponse
\* promise that can be unresolved is the one that invocation awaits.
C1_SingleInFlight ==
    /\ Cardinality(invocations) <= 1
    /\ isProcessing <=> invocations # {}
    /\ \A c \in DOMAIN speech :
        ~speech[c].resolved =>
            \E inv \in invocations : inv.cid = c /\ inv.phase = "speak"

\* an invocation is in flight, more comments wait, several polling timers
\* run and the 5 second timer of an earlier call is still pending
C1_Witness ==
    /\ isProcessing
    /\ Len(commentQueue) > 0
    /\ intervals > 1
    /\ \E c \in DOMAIN speech : speech[c].resolved /\ speech[c].timer

\* C2: once an id is in processedComments, a queueComment call resolving to
\* that id changes nothing, and no step appends an entry whose id is in
\* processedComments or disturbs the entries already queued.
C2_ProcessedIdIsNoOp ==
    /\ [](\A e \in Events :
            commentId(e.user, e.message, e.providedId) \in processedComments
                => queueComment(Cur, e.user, e.message, e.providedId) = Cur)
    /\ [][Len(commentQueue') > Len(commentQueue) =>
            /\ SubSeq(commentQueue', 1, Len(commentQueue)) = commentQueue
            /\ \A i \in (Len(commentQueue) + 1)..Len(commentQueue') :
                commentQueue'[i].id \notin processedComments]_vars

\* a line resolving to a processed id can arrive while a comment is queued
C2_Witness ==
    /\ running # {}
    /\ Len(commentQueue) > 0
    /\ \E e \in Events :
        commentId(e.user, e.message, e.providedId) \in processedComments

\* C3: two lines that produce the same (user, text) without an explicit id
\* put one entry in commentQueue: the queue never holds two entries with
\* the same id.
C3_NoDuplicateIds ==
    \A i, j \in DOMAIN commentQueue :
        commentQueue[i].id = commentQueue[j].id => i = j

\* C4: the id of a queued comment is the provided id when there is one and
\* otherwise depends on (user, message) only: entries with equal user and
\* message and derived ids have equal ids whatever their timestamps, and
\* the id queueComment assigns is the same at every clock value.
C4_IdIndependentOfClock ==
    /\ \A i, j \in DOMAIN commentQueue :
        (/\ commentQueue[i].user = commentQueue[j].user
         /\ commentQueue[i].message = commentQueue[j].message
         /\ commentQueue[i].id \notin ProvidedIds
         /\ commentQueue[j].id \notin ProvidedIds)
            => commentQueue[i].id = commentQueue[j].id
    /\ \A e \in Events, t \in 0..MaxClock :
        LET S == queueComment([Cur EXCEPT !.now = t, !.commentQueue = <<>>,
                                          !.processedComments = {}],
                              e.user, e.message, e.providedId)
        IN  /\ Len(S.commentQueue) = 1
            /\ S.commentQueue[1].timestamp = t
            /\ S.commentQueue[1].id =
                 (IF Truthy(e.providedId) THEN e.providedId
                  ELSE commentId(e.user, e.message, Null))

\* two entries for the same (user, message), queued at different times
C4_Witness ==
    \E i, j \in DOMAIN commentQueue :
        /\ commentQueue[i].user = commentQueue[j].user
        /\ commentQueue[i].message = commentQueue[j].message
        /\ commentQueue[i].timestamp # commentQueue[j].timestamp
        /\ commentQueue[i].id \notin ProvidedIds
        /\ commentQueue[i].id = commentQueue[j].id

\* the (user, message) captures of the lines src/app.js queues
App_Matches ==
    {MatchWordColon(line) :
        line \in {l \in App_Lines :
                    /\ Includes(l, Chars("message:")) \/ Includes(l, Chars("chat:"))
                    /\ MatchWordColon(l) # NoMatch}}

\* the entries of queue q for the capture m
App_EntriesOf(q, m) ==
    {i \in DOMAIN q : q[i].user = Str(m[1]) /\ q[i].message = Str(Trim(m[2]))}

\* the comment of capture m was processed, whenever it was parsed
App_Processed(m) ==
    \E t \in 0..MaxClock : App_commentId(m[1], m[2], t) \in processedComments

\* C5: in src/app.js, once a comment is processed, parsing a line with the
\* same (user, message) again, at whatever time, appends nothing for it.
C5_App_NoReprocessing ==
    [][\A m \in App_Matches :
        App_Processed(m) =>
            Cardinality(App_EntriesOf(commentQueue', m))
                <= Cardinality(App_EntriesOf(commentQueue, m))]_vars

\* C6: ttsDisabled only changes from false to true.
C6_TtsDisabledMonotone == [][ttsDisabled => ttsDisabled']_vars

\* TTS is disabled, a call timed out while the engine still owes its
\* callback, and a later speakResponse call was made
C6_Witness ==
    /\ ttsDisabled
    /\ \E c, d \in DOMAIN speech :
        /\ c < d
        /\ speech[c].cb /\ ~speech[c].timer

\* the 5 second timer of call c fires: the timer goes and the engine's
\* callback stays as it was (the callback itself clears both)
TimeoutFires(c) ==
    /\ speech[c].timer
    /\ ~speech'[c].timer
    /\ speech'[c].cb = speech[c].cb

\* C7: when the timeout of a speakResponse call fires before the engine
\* called back, ttsDisabled becomes true, the promise of the call is
\* resolved and isProcessing is false again.
C7_TimeoutCompletesCall ==
    [][\A c \in DOMAIN speech :
        (TimeoutFires(c) /\ ~speech[c].resolved) =>
            /\ ttsDisabled'
            /\ speech'[c].resolved
            /\ ~isProcessing'
            /\ invocations' = {}]_vars

\* a call timed out with the engine's callback still owed, and a later
\* comment was taken from the queue afterwards
C7_Witness ==
    /\ ttsDisabled
    /\ ~isProcessing
    /\ \E c \in DOMAIN speech :
        /\ speech[c].resolved /\ ~speech[c].timer /\ speech[c].cb
        /\ started > c

\* C8: in src/app.js a speakResponse call never hangs the processor: while
\* isProcessing is set, the event that completes the invocation in flight is
\* pending (the generator call it awaits, or the engine's callback).
C8_App_AnnounceNeverHangs ==
    isProcessing =>
        \E inv \in invocations :
            \/ inv.phase = "generate"
            \/ inv.cid \in DOMAIN speech /\ speech[inv.cid].cb

\* C9: generateResponse never throws and never returns an empty text; when
\* the generator throws, the text is a string of one of the two pools with
\* the sender's name in it.
C9_GenerateNeverFails ==
    /\ "generateResponse" \notin caught
    /\ lastSpeak.cid # 0 =>
        /\ lastSpeak.response.len > 0
        /\ lastSpeak.generatorThrew =>
            /\ lastSpeak.response.pool \in {"funny", "crypto"}
            /\ lastSpeak.response.user = ToText(lastSpeak.originalComment.user)
            /\ lastSpeak.response =
                 Canned(lastSpeak.response.pool, lastSpeak.response.idx,
                        lastSpeak.originalComment.user)

\* the generator threw and speakResponse was given the response
C9_Witness ==
    /\ lastSpeak.cid # 0
    /\ lastSpeak.generatorThrew
    /\ lastSpeak.response.pool = "crypto"

\* C10: every speakResponse call invokes triggerAvatarAnimation exactly once,
\* with the response text, on every path, and no other step invokes it.
C10_TriggerOncePerCall ==
    IF lastSpeak.cid # 0
    THEN lastSpeak.triggered = <<lastSpeak.response>>
    ELSE lastSpeak.triggered = <<>>

\* speakResponse was called with TTS already disabled
C10_Witness ==
    /\ lastSpeak.cid # 0
    /\ ttsDisabled
    /\ speech[lastSpeak.cid].resolved
    /\ ~speech[lastSpeak.cid].timer

\* C11: a start call with a subprocess running kills it and spawns one new
\* subprocess, and the exit of the subprocess that start killed schedules
\* no restart, so that nothing kills the new subprocess or spawns another.
C11_RestartIsIdempotent ==
    [][/\ (spawned' # spawned /\ mcpProcess \in running) =>
            /\ spawned' = spawned + 1
            /\ mcpProcess' = spawned'
            /\ mcpProcess \in killed'
            /\ spawned' \in running'
       /\ \A pid \in killed :
            pid \notin running' => restartTimers' = restartTimers]_vars

\* C12: comments are processed in insertion order.  A dequeue takes the
\* head of commentQueue and hands it to generateResponse/speakResponse, and
\* every other step leaves the queued entries in place, appending at most.
C12_Fifo ==
    [][/\ started' # started =>
            /\ commentQueue # <<>>
            /\ commentQueue' = Tail(commentQueue)
            /\ \A inv \in invocations' :
                inv.cid = started' => inv.comment = Head(commentQueue)
            /\ lastSpeak'.cid = started' =>
                lastSpeak'.originalComment = Head(commentQueue)
       /\ started' = started =>
            /\ Len(commentQueue') >= Len(commentQueue)
            /\ SubSeq(commentQueue', 1, Len(commentQueue)) = commentQueue]_vars

\* the comment queued first is in flight while one queued later waits
C12_Witness ==
    \E inv \in invocations :
        /\ Len(commentQueue) > 0
        /\ inv.comment.id # commentQueue[1].id
        /\ inv.comment.timestamp < commentQueue[1].timestamp

\* C13: after a dequeue the processor returns to idle whatever generation
\* and announcement do.  A set flag always belongs to an invocation whose
\* next event is pending (the generator call, or the 5 second timer of its
\* speakResponse call), an ended invocation leaves the flag cleared, and no
\* processing step puts a comment into commentQueue.
C13_IdleAfterError ==
    /\ [](isProcessing =>
            \E inv \in invocations :
                \/ inv.phase = "generate"
                \/ /\ inv.phase = "speak"
                   /\ inv.cid \in DOMAIN speech
                   /\ speech[inv.cid].timer)
    /\ [][(started' # started \/ invocations' # invocations
           \/ speech' # speech) =>
            /\ Len(commentQueue') <= Len(commentQueue)
            /\ invocations' = {} => ~isProcessing']_vars

\* say.speak threw in the latest call and the processor is idle
C13_Witness ==
    /\ ~isProcessing
    /\ started \in DOMAIN speech
    /\ speech[started].resolved
    /\ speech[started].timer

C15_ProcessedOnlyGrows ==
    /\ [](/\ status(Cur).processedCount = Cardinality(processedComments)
          /\ status(Cur).processedCount <= started
          /\ status(Cur).queueLength = Len(commentQueue)
          /\ status(Cur).isProcessing = isProcessing)
    /\ [][/\ processedComments \subseteq processedComments'
          /\ IF started' # started
             THEN processedComments' =
                    processedComments \cup {Head(commentQueue).id}
             ELSE processedComments' = processedComments]_vars

\* the same id was dequeued twice: two dequeues, one distinct id
C15_Witness ==
    /\ started = 2
    /\ Cardinality(processedComments) = 1

\* C16: while a comment is in flight its id is in processedComments, and a
\* queueComment call that resolves to that id changes nothing.
C16_MarkedBeforeGenerate ==
    \A inv \in invocations :
        /\ inv.comment.id \in processedComments
        /\ \A e \in Events :
            commentId(e.user, e.message, e.providedId) = inv.comment.id
                => queueComment(Cur, e.user, e.message, e.providedId) = Cur

\* generateResponse is pending for a comment whose line can arrive again
C16_Witness ==
    /\ running # {}
    /\ \E inv \in invocations, e \in Events :
        /\ inv.phase = "generate"
        /\ commentId(e.user, e.message, e.providedId) = inv.comment.id

\* a chunk was handed to the parser and nothing was dequeued since
JustParsed == delivered # <<>> /\ started = 0

\* the (user, message) of the queued comments, in order
QueuedPairs ==
    [i \in DOMAIN commentQueue |->
        <<commentQueue[i].user, commentQueue[i].message>>]

IsNonBlank(line) == Trim(line) # <<>>

\* the lines of the delivered chunk that are not blank
DeliveredLines == SelectSeq(Split(delivered), IsNonBlank)

\* step 1 of the chain: the line decodes to a record that declares itself
\* a message and has both user and text
IsMessageRecord(line) ==
    LET data == JSONParse(line)
    IN  /\ data.ok
        /\ data.val.t = "object"
        /\ Get(data.val, Chars("type")) = Str(Chars("message"))
        /\ Truthy(Get(data.val, Chars("user")))
        /\ Truthy(Get(data.val, Chars("text")))

RecordPair(line) ==
    <<Get(JSONParse(line).val, Chars("user")),
      Get(JSONParse(line).val, Chars("text"))>>

\* steps 2 and 3 of the chain: the "New message from" pattern, then the
\* colon heuristic
PatternPairs(line) ==
    IF MatchNewMessage(line) # NoMatch
    THEN << <<Str(Trim(MatchNewMessage(line)[1])),
              Str(Trim(MatchNewMessage(line)[2]))>> >>
    ELSE IF MatchWordColon(line) # NoMatch
    THEN << <<Str(MatchWordColon(line)[1]),
              Str(Trim(MatchWordColon(line)[2]))>> >>
    ELSE <<>>

\* the line decodes as JSON to something other than null
Decodes(line) == JSONParse(line).ok /\ JSONParse(line).val # Null

\* what the chain yields when every line that is no message record falls
\* through to the patterns
RECURSIVE FallThroughPairs(_)
FallThroughPairs(lines) ==
    IF lines = <<>> THEN <<>>
    ELSE (IF IsMessageRecord(Head(lines)) THEN <<RecordPair(Head(lines))>>
          ELSE PatternPairs(Head(lines)))
         \o FallThroughPairs(Tail(lines))

\* what the chain yields when only a line that does not decode falls
\* through to the patterns
RECURSIVE DecodeFailurePairs(_)
DecodeFailurePairs(lines) ==
    IF lines = <<>> THEN <<>>
    ELSE (IF Decodes(Head(lines))
          THEN (IF IsMessageRecord(Head(lines))
                THEN <<RecordPair(Head(lines))>> ELSE <<>>)
          ELSE PatternPairs(Head(lines)))
         \o DecodeFailurePairs(Tail(lines))

\* C17 as stated: every non-blank line for which step 1 emits no event,
\* because it does not decode or because it decodes to something that is
\* no message record, is tried against the two patterns in turn.
C17_FallThroughChain ==
    JustParsed => QueuedPairs = FallThroughPairs(DeliveredLines)

\* C17 amended: a non-blank line that does not decode as JSON is tried
\* against the "New message from" pattern, then the colon heuristic, and
\* is discarded when neither matches; a line that decodes to a message
\* record yields that event, and a line that decodes to anything else is
\* discarded without being tried against the patterns.
C17_FallThroughOnDecodeFailure ==
    JustParsed => QueuedPairs = DecodeFailurePairs(DeliveredLines)

\* the JSON string "al: gm" was delivered: it decodes, the colon heuristic
\* would match it, and nothing was queued
C17_Witness ==
    /\ JustParsed
    /\ Split(delivered) = <<Line_jsonString_al_gm>>
    /\ MatchWordColon(Line_jsonString_al_gm) # NoMatch
    /\ commentQueue = <<>>

C19_TextNonEmptyAfterTrim ==
    \A i \in DOMAIN commentQueue :
        Trim(ToText(commentQueue[i].message)) # <<>>

\* no decoder accepts the line: JSON.parse throws and no pattern matches
ParseFails(line) == ~JSONParse(line).ok /\ PatternPairs(line) = <<>>

ParseSucceeds(line) == ~ParseFails(line)

EventPairs(events) ==
    [i \in DOMAIN events |-> <<events[i].user, events[i].message>>]

\* C20: a line that fails to parse does not keep the later lines of its
\* chunk from being parsed: what a chunk queues is what the chunk without
\* its failing lines queues.
C20_PerLineIsolation ==
    JustParsed =>
        QueuedPairs =
            EventPairs(forEachLine(SelectSeq(Split(delivered), ParseSucceeds)))

\* a chunk whose first line fails to parse queued the event of its second
C20_Witness ==
    /\ JustParsed
    /\ Len(Split(delivered)) = 2
    /\ ParseFails(Split(delivered)[1])
    /\ Len(commentQueue) = 1

\* C21: under FairSpec every queued comment is eventually dequeued (as far
\* as the model lets the processor start invocations) and a processor that
\* is busy is eventually idle again, whatever the speech engine does.
C21_QueueDrains ==
    /\ []<>(~isProcessing)
    /\ []<>(commentQueue = <<>> \/ started = MaxCalls)

\* every invocation the model allows ran and ended, the queue is empty, and
\* a call was completed by its timeout: the engine never called back or
\* still owes the callback
C21_Witness ==
    /\ started = MaxCalls
    /\ commentQueue = <<>>
    /\ ~isProcessing
    /\ ttsDisabled
    /\ \E c \in DOMAIN speech : speech[c].resolved /\ ~speech[c].timer

\* C22: once monitoring was started, exactly one periodic queue-polling
\* timer is active, whatever start calls and subprocess restarts happened.
C22_SinglePollingTimer == spawned > 0 => intervals = 1

\* C23: with a text generator present, generateResponse returns the
\* enhanced text exactly when it is non-empty and its length is greater
\* than 10 and less than 150; for an empty, too short or too long text it
\* returns the selected canned response.
C23_EnhancedLengthWindow ==
    /\ \A inv \in invocations :
        inv.phase = "generate" =>
            \A outcome \in GeneratorOutcomes :
                ~outcome.throws =>
                    generateResponseResumed(inv.comment, inv.selected, outcome)
                        = IF /\ outcome.len > 0
                             /\ outcome.len > MinEnhanced
                             /\ outcome.len < MaxEnhanced
                          THEN Returned(Enhanced(outcome.len))
                          ELSE Returned(inv.selected)
    /\ (lastSpeak.cid # 0 /\ lastSpeak.response.pool = "enhanced") =>
            /\ textGenerator # "null"
            /\ lastSpeak.response.len > MinEnhanced
            /\ lastSpeak.response.len < MaxEnhanced

\* an enhanced text of the greatest accepted length is being spoken
C23_Witness ==
    /\ lastSpeak.cid # 0
    /\ lastSpeak.response = Enhanced(MaxEnhanced - 1)
    /\ ~lastSpeak.generatorThrew

\* the engine's callback of call c runs in this step although the promise
\* of the call was already resolved
LateCallback(c) ==
    /\ speech[c].cb
    /\ speech[c].resolved
    /\ ~speech'[c].cb

\* C24: a synthesis callback that arrives after its speakResponse call was
\* completed changes nothing of the pipeline: not isProcessing, not the
\* queue, not the set of processed ids, not the invocation in flight, not
\* ttsDisabled.  The processor goes from busy to idle only in a step that
\* ends the one invocation in flight, the latest one started.
C24_LateCallbackIsInert ==
    /\ [][\A c \in DOMAIN speech :
            LateCallback(c) =>
                /\ isProcessing' = isProcessing
                /\ commentQueue' = commentQueue
                /\ processedComments' = processedComments
                /\ invocations' = invocations
                /\ started' = started
                /\ ttsDisabled' = ttsDisabled
                /\ currentlySpeaking' = currentlySpeaking]_vars
    /\ [][(isProcessing /\ ~isProcessing') =>
            /\ \E inv \in invocations :
                /\ inv.cid = started
                /\ invocations = {inv}
            /\ invocations' = {}]_vars
    /\ [][(~isProcessing /\ started' = started) => ~isProcessing']_vars

\* a call was completed by its timeout, the engine still owes the callback
\* of that call, and a later comment is in flight
C24_Witness ==
    \E c \in DOMAIN speech :
        /\ speech[c].resolved /\ speech[c].cb /\ ~speech[c].timer
        /\ isProcessing
        /\ \E inv \in invocations : inv.cid > c

\* C25: whenever the status reply says currentlySpeaking it also says
\* isProcessing: speech is never reported while no invocation is in flight.
C25_SpeakingImpliesProcessing ==
    status(Cur).currentlySpeaking => status(Cur).isProcessing

\* speech is reported during a later invocation, after an earlier
\* speakResponse call was completed
C25_Witness ==
    /\ status(Cur).currentlySpeaking
    /\ status(Cur).isProcessing
    /\ \E c \in DOMAIN speech : c < started /\ speech[c].resolved
====
